---- MODULE Spec2Model ----
(***************************************************************************)
(* Model of the dbx Python SDK (sdks/redis-py): DbxClient, the transport   *)
(* (client.py), and StringClient, the string facade (clients/string.py).   *)
(*                                                                         *)
(* A facade call blocks in requests.request until the network answers, so  *)
(* a call is two steps: the caller's step issues the HTTP request (the     *)
(* request is then in flight, pc = "waiting"), and the answer's step runs  *)
(* the rest of DbxClient._request and the facade's extraction.             *)
(***************************************************************************)
EXTENDS Integers, Sequences, FiniteSets, TLC

VARIABLES
    ctor,       \* the arguments DbxClient.__init__ was called with
    base_url,   \* self.base_url
    timeout,    \* self.timeout
    headers,    \* self.headers
    pc,         \* "idle": no call is running; "waiting": a request is in flight
    call,       \* the facade call that is running or ran last
    wire,       \* the HTTP requests issued by that call, in order
    resp,       \* what requests.request gave for it
    transport,  \* how DbxClient._request ended
    outcome,    \* how the facade call ended
    store,      \* the server: url -> the value last POSTed there
    written     \* key -> the value of the last set the server applied

vars == <<ctor, base_url, timeout, headers, pc, call, wire, resp, transport, outcome, store, written>>

(***************************************************************************)
(* Bounds.                                                                 *)
(***************************************************************************)
MaxSlashes == 2     \* trailing slashes of the constructor's base_url
MaxKeys == 2        \* length of batch_get's key list and of a values list

(***************************************************************************)
(* Python values: None, bool, int, str, list, dict.                        *)
(***************************************************************************)
PyNone == [t |-> "None"]
PyBool(b) == [t |-> "bool", v |-> b]
PyInt(n) == [t |-> "int", v |-> n]
PyStr(s) == [t |-> "str", v |-> s]
PyList(s) == [t |-> "list", v |-> s]
PyDict(f) == [t |-> "dict", v |-> f]

EmptyDict == PyDict(<<>>)

\* bool(v): None, False, 0, "", [] and {} are falsy.
Truthy(v) ==
    CASE v.t = "None" -> FALSE
      [] v.t = "bool" -> v.v
      [] v.t = "int"  -> v.v # 0
      [] v.t = "str"  -> v.v # ""
      [] v.t = "list" -> Len(v.v) > 0
      [] v.t = "dict" -> DOMAIN v.v # {}

\* d[k] = x on a dict.
DictSet(d, k, x) ==
    PyDict([f \in (DOMAIN d.v) \cup {k} |-> IF f = k THEN x ELSE d.v[f]])

\* How a Python expression ends.
Return(v) == [kind |-> "return", value |-> v]
Raise(exc, cause) == [kind |-> "raise", exc |-> exc, cause |-> cause]
Pending == [kind |-> "pending"]

\* v.get(k, default): dict.get on a dict, AttributeError on anything else
\* (list, str, int and bool have no attribute get).
PyGet(v, k, default) ==
    IF v.t = "dict"
    THEN Return(IF k \in DOMAIN v.v THEN v.v[k] ELSE default)
    ELSE Raise("AttributeError", "none")

(***************************************************************************)
(* DbxClient.__init__                                                      *)
(***************************************************************************)
\* Mutant of rstrip: only one trailing "/" is removed.
rstrip_one(s) ==
    IF Len(s) > 0 /\ SubSeq(s, Len(s), Len(s)) = "/"
    THEN SubSeq(s, 1, Len(s) - 1)
    ELSE s

RECURSIVE rstrip(_)
\* str.rstrip("/"): every trailing "/" is removed.
rstrip(s) ==
    IF Len(s) > 0 /\ SubSeq(s, Len(s), Len(s)) = "/"
    THEN rstrip(SubSeq(s, 1, Len(s) - 1))
    ELSE s

\* headers or {}
HeadersOrEmpty(h) == IF Truthy(h) THEN h ELSE EmptyDict

RECURSIVE Slashes(_)
Slashes(n) == IF n = 0 THEN "" ELSE "/" \o Slashes(n - 1)

BaseUrlArgs == {stem \o Slashes(n) : stem \in {"", "http://h"}, n \in 0..MaxSlashes}
TimeoutArgs == {PyNone, PyInt(5)}
HeadersArgs == {PyNone, PyDict([Authorization |-> PyStr("t")])}

Init ==
    /\ ctor \in [base_url : BaseUrlArgs, timeout : TimeoutArgs, headers : HeadersArgs]
    /\ base_url = rstrip(ctor.base_url)
    /\ timeout = ctor.timeout
    /\ headers = HeadersOrEmpty(ctor.headers)
    /\ pc = "idle"
    /\ call = [op |-> "none"]
    /\ wire = <<>>
    /\ resp = [kind |-> "none"]
    /\ transport = Pending
    /\ outcome = Pending
    /\ store = <<>>
    /\ written = <<>>

(***************************************************************************)
(* What requests.request can give: it raises a RequestException (no        *)
(* connection, timeout), or returns a response with a status code and a    *)
(* body.  A body is empty, or JSON text, or text response.json() cannot    *)
(* parse; what json() raises then depends on the installed requests:       *)
(* requests.exceptions.JSONDecodeError (a RequestException) since 2.27, a  *)
(* plain ValueError before.                                                *)
(***************************************************************************)
NoBody == [empty |-> TRUE]
JsonBody(j) == [empty |-> FALSE, valid |-> TRUE, json |-> j]
BadBody(exc) == [empty |-> FALSE, valid |-> FALSE, raises |-> exc]

NetworkError(exc) == [kind |-> "exception", exc |-> exc]
Http(status, body) == [kind |-> "response", status_code |-> status, body |-> body]

(***************************************************************************)
(* DbxClient._request                                                      *)
(***************************************************************************)
\* url = f"{self.base_url}{path}"
RequestUrl(base, path) == base \o path

\* requests.request(method, url, timeout=self.timeout, headers=self.headers, **kwargs)
requests_request(method, url, kwargs) ==
    [method |-> method, url |-> url, timeout |-> timeout, headers |-> headers,
     kwargs |-> kwargs]

\* Mutant of SendOnce: the request is issued a second time.
SendTwice(method, path, kwargs) ==
    <<requests_request(method, RequestUrl(base_url, path), kwargs),
      requests_request(method, RequestUrl(base_url, path), kwargs)>>

\* The requests _request issues for one call.
SendOnce(method, path, kwargs) ==
    <<requests_request(method, RequestUrl(base_url, path), kwargs)>>

\* Mutant of raise_for_status: only server errors raise.
raise_for_status_5xx(r) == 500 <= r.status_code /\ r.status_code < 600

\* response.raise_for_status(): HTTPError for 4xx and 5xx, nothing otherwise.
raise_for_status(r) == 400 <= r.status_code /\ r.status_code < 600

\* response.json() inside the try: a RequestException is caught and wrapped,
\* anything else leaves _request as it is.
response_json(body) ==
    IF body.valid THEN Return(body.json)
    ELSE IF body.raises = "requests.JSONDecodeError"
         THEN Raise("RuntimeError", body.raises)
         ELSE Raise(body.raises, "none")

\* Mutant of request_result: the body is read before the status is checked.
request_result_body_first(r) ==
    IF r.kind = "exception" THEN Raise("RuntimeError", r.exc)
    ELSE IF ~r.body.empty THEN response_json(r.body)
    ELSE IF raise_for_status(r) THEN Raise("RuntimeError", "HTTPError")
    ELSE Return(PyNone)

\* Lines 21-28: the try block once requests.request has answered.
request_result(r) ==
    IF r.kind = "exception" THEN Raise("RuntimeError", r.exc)
    ELSE IF raise_for_status(r) THEN Raise("RuntimeError", "HTTPError")
    ELSE IF ~r.body.empty THEN response_json(r.body)
    ELSE Return(PyNone)

(***************************************************************************)
(* StringClient: what each method sends.                                   *)
(***************************************************************************)
NoKwargs == <<>>
JsonKwarg(data) == [json |-> data]

\* f"/redis/string/{key}"
KeyPath(key) == "/redis/string/" \o key
\* f"/redis/string/{key}/info"
InfoPath(key) == "/redis/string/" \o key \o "/info"

\* Mutant of set_data: "if ttl:" in place of "if ttl is not None:".
set_data_truthy_ttl(value, ttl) ==
    IF Truthy(ttl)
    THEN DictSet(PyDict([value |-> PyStr(value)]), "ttl", ttl)
    ELSE PyDict([value |-> PyStr(value)])

\* set, lines 12-14: data = {"value": value}; if ttl is not None: data["ttl"] = ttl
set_data(value, ttl) ==
    IF ttl # PyNone
    THEN DictSet(PyDict([value |-> PyStr(value)]), "ttl", ttl)
    ELSE PyDict([value |-> PyStr(value)])

\* json={"keys": keys}
batch_get_data(keys) == PyDict([keys |-> PyList([i \in 1..Len(keys) |-> PyStr(keys[i])])])

\* json={"operations": operations}
batch_set_data(operations) == PyDict([operations |-> PyList(operations)])

(***************************************************************************)
(* StringClient: what each method returns, given how _request ended.  An   *)
(* exception of _request passes through the method unchanged.              *)
(***************************************************************************)
\* Mutant of get_return: the field is read under another name.
get_return_data_field(t) ==
    IF t.kind = "raise" THEN t
    ELSE IF Truthy(t.value) THEN PyGet(t.value, "data", PyNone) ELSE Return(PyNone)

\* return response.get("value") if response else None
get_return(t) ==
    IF t.kind = "raise" THEN t
    ELSE IF Truthy(t.value) THEN PyGet(t.value, "value", PyNone) ELSE Return(PyNone)

\* set has no return statement
set_return(t) == IF t.kind = "raise" THEN t ELSE Return(PyNone)

\* Mutant of delete_return: the guard on an absent response is missing.
delete_return_unguarded(t) ==
    IF t.kind = "raise" THEN t
    ELSE PyGet(t.value, "deleted", PyBool(FALSE))

\* Mutant of delete_return: the field's presence is returned, not its value.
delete_return_presence(t) ==
    IF t.kind = "raise" THEN t
    ELSE IF Truthy(t.value)
         THEN IF t.value.t = "dict"
              THEN Return(PyBool("deleted" \in DOMAIN t.value.v))
              ELSE Raise("AttributeError", "none")
         ELSE Return(PyBool(FALSE))

\* return response.get("deleted", False) if response else False
delete_return(t) ==
    IF t.kind = "raise" THEN t
    ELSE IF Truthy(t.value) THEN PyGet(t.value, "deleted", PyBool(FALSE))
         ELSE Return(PyBool(FALSE))

\* return response if response else None
info_return(t) ==
    IF t.kind = "raise" THEN t
    ELSE IF Truthy(t.value) THEN Return(t.value) ELSE Return(PyNone)

\* Mutant of batch_get_return: null entries are dropped from the values.
batch_get_return_no_nulls(t) ==
    IF t.kind = "raise" THEN t
    ELSE IF Truthy(t.value)
         THEN IF t.value.t = "dict"
              THEN Return(IF "values" \in DOMAIN t.value.v
                          THEN PyList(SelectSeq(t.value.v.values.v,
                                                LAMBDA x : x # PyNone))
                          ELSE PyList(<<>>))
              ELSE Raise("AttributeError", "none")
         ELSE Return(PyList(<<>>))

\* return response.get("values", []) if response else []
batch_get_return(t) ==
    IF t.kind = "raise" THEN t
    ELSE IF Truthy(t.value) THEN PyGet(t.value, "values", PyList(<<>>))
         ELSE Return(PyList(<<>>))

\* batch_set has no return statement
batch_set_return(t) == IF t.kind = "raise" THEN t ELSE Return(PyNone)

FacadeReturn(c, t) ==
    CASE c.op = "get"       -> get_return(t)
      [] c.op = "set"       -> set_return(t)
      [] c.op = "delete"    -> delete_return(t)
      [] c.op = "info"      -> info_return(t)
      [] c.op = "batch_get" -> batch_get_return(t)
      [] c.op = "batch_set" -> batch_set_return(t)

(***************************************************************************)
(* The server of the HTTP API the client consumes: it keeps, per URL,      *)
(* the value last POSTed there, and applies a request when it answers it   *)
(* with a 2xx status.                                                      *)
(***************************************************************************)
StorePut(st, k, v) == [u \in (DOMAIN st) \cup {k} |-> IF u = k THEN v ELSE st[u]]
StoreDel(st, k) == [u \in (DOMAIN st) \ {k} |-> st[u]]

RECURSIVE BatchPut(_, _, _)
\* POST .../redis/string/batch_set: each operation is stored at its key's URL.
BatchPut(st, prefix, operations) ==
    IF operations = <<>> THEN st
    ELSE BatchPut(StorePut(st, prefix \o Head(operations).v.key.v,
                           Head(operations).v.value.v),
                  prefix, Tail(operations))

Applied(r) == r.kind = "response" /\ 200 <= r.status_code /\ r.status_code < 300

ServerApply(st, req) ==
    IF req.method = "DELETE" THEN StoreDel(st, req.url)
    ELSE IF req.method = "POST" /\ "json" \in DOMAIN req.kwargs
    THEN LET body == req.kwargs.json.v IN
         IF "operations" \in DOMAIN body
         THEN BatchPut(st, SubSeq(req.url, 1, Len(req.url) - Len("batch_set")),
                       body.operations.v)
         ELSE IF "value" \in DOMAIN body
         THEN StorePut(st, req.url, body.value.v)
         ELSE st
    ELSE st

\* GET /redis/string/{key} answered from the store: {"value": stored or null}.
StoredReply(st, url) ==
    Http(200, JsonBody(PyDict([value |-> IF url \in DOMAIN st THEN PyStr(st[url])
                                          ELSE PyNone])))

RECURSIVE WriteAll(_, _)
WriteAll(w, operations) ==
    IF operations = <<>> THEN w
    ELSE WriteAll(StorePut(w, Head(operations).v.key.v, Head(operations).v.value.v),
                  Tail(operations))

\* The caller's view of what the server holds: key -> value of the last
\* set (or batch_set entry) the server applied, dropped by an applied delete.
Written(w, c) ==
    CASE c.op = "set"       -> StorePut(w, c.key, c.value)
      [] c.op = "delete"    -> StoreDel(w, c.key)
      [] c.op = "batch_set" -> WriteAll(w, c.operations)
      [] OTHER              -> w

(***************************************************************************)
(* The inputs and the answers the model draws from.                        *)
(***************************************************************************)
Keys == {"k1", "k2"}
Values == {"", "v1"}
TtlArgs == {PyNone, PyInt(0), PyInt(3600)}

SeqsUpTo(S, n) == UNION {[1..m -> S] : m \in 0..n}

KeyLists == SeqsUpTo(Keys, MaxKeys)

Op1 == PyDict([key |-> PyStr("k1"), value |-> PyStr("v1")])
Op2 == PyDict([key |-> PyStr("k2"), value |-> PyStr(""), ttl |-> PyInt(3600)])
OperationLists == {<<>>, <<Op1>>, <<Op1, Op2>>}

InfoObject == PyDict([ttl |-> PyInt(3600), type |-> PyStr("string")])

\* Bodies any endpoint may answer with: no body, unparseable text, and JSON
\* values that are falsy, not an object, or an object without the field.
CommonBodies ==
    {NoBody, BadBody("requests.JSONDecodeError"), BadBody("ValueError"),
     JsonBody(PyNone), JsonBody(EmptyDict), JsonBody(PyList(<<PyStr("v1")>>)),
     JsonBody(InfoObject)}

\* Bodies of the endpoint's own shape.
ShapedBodies(c) ==
    CASE c.op = "get" ->
           {JsonBody(PyDict([value |-> x])) : x \in {PyNone, PyStr(""), PyStr("v1")}}
      [] c.op = "delete" ->
           {JsonBody(PyDict([deleted |-> PyBool(b)])) : b \in BOOLEAN}
      [] c.op = "batch_get" ->
           {JsonBody(PyDict([values |-> PyList(vs)])) :
               vs \in SeqsUpTo({PyNone, PyStr("v1")}, MaxKeys)}
      [] OTHER -> {}

\* requests.request raises, or returns the final response: 2xx, a 3xx that
\* is not a redirect it follows (300, 304), 4xx or 5xx.
Responses(c) ==
    {NetworkError("ConnectionError")}
    \cup {Http(200, b) : b \in CommonBodies \cup ShapedBodies(c)}
    \cup {Http(304, NoBody), Http(300, JsonBody(InfoObject)),
          Http(404, NoBody), Http(500, JsonBody(InfoObject))}

(***************************************************************************)
(* The caller's steps: a facade method is called and its request goes out. *)
(***************************************************************************)
Start(c, method, path, kwargs) ==
    /\ pc' = "waiting"
    /\ call' = c
    /\ wire' = SendOnce(method, path, kwargs)
    /\ resp' = [kind |-> "none"]
    /\ transport' = Pending
    /\ outcome' = Pending
    /\ UNCHANGED <<ctor, base_url, timeout, headers, store, written>>

get(key) ==
    /\ pc = "idle"
    /\ Start([op |-> "get", key |-> key], "GET", KeyPath(key), NoKwargs)

set(key, value, ttl) ==
    /\ pc = "idle"
    /\ Start([op |-> "set", key |-> key, value |-> value, ttl |-> ttl],
             "POST", KeyPath(key), JsonKwarg(set_data(value, ttl)))

delete(key) ==
    /\ pc = "idle"
    /\ Start([op |-> "delete", key |-> key], "DELETE", KeyPath(key), NoKwargs)

info(key) ==
    /\ pc = "idle"
    /\ Start([op |-> "info", key |-> key], "GET", InfoPath(key), NoKwargs)

batch_get(keys) ==
    /\ pc = "idle"
    /\ Start([op |-> "batch_get", keys |-> keys],
             "POST", "/redis/string/batch_get", JsonKwarg(batch_get_data(keys)))

batch_set(operations) ==
    /\ pc = "idle"
    /\ Start([op |-> "batch_set", operations |-> operations],
             "POST", "/redis/string/batch_set", JsonKwarg(batch_set_data(operations)))

(***************************************************************************)
(* The answer's step: requests.request returns or raises, _request and     *)
(* the facade method run to their end, and the call is over.               *)
(***************************************************************************)
Finish(r) ==
    /\ pc' = "idle"
    /\ resp' = r
    /\ transport' = request_result(r)
    /\ outcome' = FacadeReturn(call, request_result(r))
    /\ store' = IF Applied(r) THEN ServerApply(store, wire[Len(wire)]) ELSE store
    /\ written' = IF Applied(r) THEN Written(written, call) ELSE written
    /\ UNCHANGED <<ctor, base_url, timeout, headers, call, wire>>

Answer ==
    /\ pc = "waiting"
    /\ \E r \in Responses(call) : Finish(r)

Next ==
    \/ \E key \in Keys : get(key)
    \/ \E key \in Keys, value \in Values, ttl \in TtlArgs : set(key, value, ttl)
    \/ \E key \in Keys : delete(key)
    \/ \E key \in Keys : info(key)
    \/ \E keys \in KeyLists : batch_get(keys)
    \/ \E operations \in OperationLists : batch_set(operations)
    \/ Answer

Spec == Init /\ [][Next]_vars

(***************************************************************************)
(* Properties.                                                             *)
(***************************************************************************)
Done == pc = "idle" /\ call.op # "none"
Answered == Done /\ resp.kind = "response"
Success == Answered /\ 200 <= resp.status_code /\ resp.status_code < 300
ErrorStatus == Answered /\ 400 <= resp.status_code /\ resp.status_code < 600
\* The answer is a 2xx response whose body is the JSON value j.
SuccessJson(j) == Success /\ resp.body = JsonBody(j)

\* The answer's body is a JSON object.
IsObject == Answered /\ ~resp.body.empty /\ resp.body.valid /\ resp.body.json.t = "dict"
NonEmptyObject == IsObject /\ DOMAIN resp.body.json.v # {}
HasField(f) == IsObject /\ f \in DOMAIN resp.body.json.v

\* C1: against a server that stores what POST /redis/string/{k} sends and
\* answers GET /redis/string/{k} with {"value": stored}, a get(k) that follows
\* a set(k, v), with no later write or delete of k, returns v.
C1_SetThenGet ==
    (/\ Done
     /\ call.op = "get"
     /\ call.key \in DOMAIN written
     /\ resp = StoredReply(store, wire[1].url))
    => outcome = Return(PyStr(written[call.key]))

C1_Witness ==
    /\ Done
    /\ call.op = "get"
    /\ call.key \in DOMAIN written
    /\ written[call.key] = "v1"
    /\ resp = StoredReply(store, wire[1].url)
    /\ outcome = Return(PyStr("v1"))

C3_NullFallbacks ==
    (Done /\ transport = Return(PyNone))
    => /\ call.op = "get"       => outcome = Return(PyNone)
       /\ call.op = "delete"    => outcome = Return(PyBool(FALSE))
       /\ call.op = "info"      => outcome = Return(PyNone)
       /\ call.op = "batch_get" => outcome = Return(PyList(<<>>))

C3_Witness ==
    /\ Success
    /\ resp.body = NoBody
    /\ transport = Return(PyNone)
    /\ call.op = "delete"
    /\ outcome = Return(PyBool(FALSE))

\* C4: batch_get(keys) forwards keys as they are in the body {"keys": keys},
\* the empty list included, and for a response {"values": vs} returns vs:
\* same length, same order, null entries kept.
C4_BatchGetPassesThrough ==
    (call.op = "batch_get")
    => /\ Len(wire) > 0
       /\ wire[1].kwargs = [json |-> PyDict([keys |->
              PyList([i \in 1..Len(call.keys) |-> PyStr(call.keys[i])])])]
       /\ (Success /\ HasField("values"))
          => LET vs == resp.body.json.v.values.v IN
             /\ outcome.kind = "return"
             /\ outcome.value.t = "list"
             /\ Len(outcome.value.v) = Len(vs)
             /\ \A i \in 1..Len(vs) : outcome.value.v[i] = vs[i]

C4_Witness ==
    /\ call.op = "batch_get"
    /\ call.keys = <<"k2", "k1">>
    /\ SuccessJson(PyDict([values |-> PyList(<<PyNone, PyStr("v1")>>)]))
    /\ outcome = Return(PyList(<<PyNone, PyStr("v1")>>))

\* C5: set(k, v, ttl) POSTs to /redis/string/{k} the body {value: v, ttl: ttl}
\* when a ttl is given, 0 included, and the body {value: v} when it is not;
\* the body has no other field.
C5_SetBody ==
    (call.op = "set")
    => /\ Len(wire) > 0
       /\ wire[1].method = "POST"
       /\ wire[1].url = base_url \o "/redis/string/" \o call.key
       /\ DOMAIN wire[1].kwargs = {"json"}
       /\ wire[1].kwargs.json.t = "dict"
       /\ wire[1].kwargs.json.v.value = PyStr(call.value)
       /\ IF call.ttl = PyNone
          THEN DOMAIN wire[1].kwargs.json.v = {"value"}
          ELSE /\ DOMAIN wire[1].kwargs.json.v = {"value", "ttl"}
               /\ wire[1].kwargs.json.v.ttl = call.ttl

C5_Witness ==
    /\ call.op = "set"
    /\ call.ttl = PyInt(0)
    /\ wire[1].kwargs.json = PyDict([value |-> PyStr(call.value), ttl |-> PyInt(0)])

\* C6 as stated: info(k) returns the whole parsed body whenever the response
\* has a body, whatever JSON value it parses to (an empty object included),
\* and None when the response has no body.
C6_InfoReturnsBody ==
    (Success /\ call.op = "info")
    => /\ (~resp.body.empty /\ resp.body.valid) => outcome = Return(resp.body.json)
       /\ resp.body.empty => outcome = Return(PyNone)

\* C7: delete(k) sends DELETE to /redis/string/{k} and returns the response's
\* "deleted" field when the response object has one, and False when a
\* non-empty response object has none.
C7_DeleteResult ==
    (call.op = "delete")
    => /\ Len(wire) > 0
       /\ wire[1].method = "DELETE"
       /\ wire[1].url = base_url \o "/redis/string/" \o call.key
       /\ (Success /\ HasField("deleted"))
          => outcome = Return(resp.body.json.v.deleted)
       /\ (Success /\ NonEmptyObject /\ ~HasField("deleted"))
          => outcome = Return(PyBool(FALSE))

C7_Witness ==
    /\ call.op = "delete"
    /\ SuccessJson(PyDict([deleted |-> PyBool(FALSE)]))
    /\ outcome = Return(PyBool(FALSE))

TableMethod(c) ==
    CASE c.op \in {"get", "info"} -> "GET"
      [] c.op = "delete" -> "DELETE"
      [] OTHER -> "POST"

TablePath(c) ==
    CASE c.op \in {"get", "set", "delete"} -> "/redis/string/" \o c.key
      [] c.op = "info" -> "/redis/string/" \o c.key \o "/info"
      [] c.op = "batch_get" -> "/redis/string/batch_get"
      [] c.op = "batch_set" -> "/redis/string/batch_set"

\* C8: a facade call issues exactly one HTTP request, with the method and the
\* path of its row of the operations table appended to the base URL and with
\* the configured timeout and headers, whether it succeeds or fails.
C8_OneRequestPerCall ==
    (call.op # "none")
    => /\ Len(wire) = 1
       /\ wire[1].method = TableMethod(call)
       /\ wire[1].url = base_url \o TablePath(call)
       /\ wire[1].timeout = timeout
       /\ wire[1].headers = headers

C8_Witness ==
    /\ Done
    /\ call.op = "info"
    /\ outcome.kind = "raise"
    /\ wire = <<[method |-> "GET", url |-> "http://h/redis/string/k1/info",
                 timeout |-> PyInt(5), headers |-> EmptyDict, kwargs |-> <<>>]>>

NoTrailingSlash(s) == Len(s) = 0 \/ SubSeq(s, Len(s), Len(s)) # "/"

\* C9: after construction and after any sequence of facade operations, the
\* base URL has no trailing slash, whatever the constructor was given, and
\* base URL, timeout and headers are the ones fixed at construction.
C9_ConfigFixed ==
    /\ NoTrailingSlash(base_url)
    /\ \E n \in 0..Len(ctor.base_url) : ctor.base_url = base_url \o Slashes(n)
    /\ timeout = ctor.timeout
    /\ headers = IF ctor.headers = PyNone THEN EmptyDict ELSE ctor.headers

C9_Witness ==
    /\ Done
    /\ outcome.kind = "raise"
    /\ ctor.base_url = "http://h//"
    /\ base_url = "http://h"

====
